---------------------------- MODULE Spec2Model ----------------------------
(***************************************************************************)
(* FloppyIO: a duplex channel between a hypervisor ("host") and a guest    *)
(* through one fixed-size file.  The model follows src/floppyIO.cpp: the   *)
(* file is a byte array, every endpoint is a FloppyIO object with its own  *)
(* layout and its own position in send / receive / waitForSync, and every  *)
(* action is one group of file operations that reaches the file together.  *)
(***************************************************************************)
EXTENDS Integers, Sequences, FiniteSets, TLC

(* ------------------------------ bounds -------------------------------- *)

\* Size of the floppy image in the model (DEFAULT_FIO_FLOPPY_SIZE scaled down).
SzFloppy == 12

\* Payload bytes are drawn from 0..MaxByte.
MaxByte == 2

\* Longest payload of the runs in which both endpoints work in parallel.
MaxSyncLen == 2

\* The longest content of a stream source.
MaxSrcLen == 9

\* The clock runs from 0 to MaxClock seconds.
MaxClock == 5

\* The timeouts of the runs with a clock: 1..MaxTimeout seconds.
MaxTimeout == 2

\* The most messages chained in errorStr before clear() is called.
MaxChain == 2

(* ----------------------- constants of the program ---------------------- *)

FPIO_ERR_IO == -1
FPIO_ERR_TIMEOUT == -2
FPIO_ERR_NOTREADY == -4
FPIO_ERR_INPUT == -5
FPIO_ERR_ABORTED == -6

\* sizeof(fpio_datalen_io): the data-length prefix of a binary frame.
PrefixLen == 4

\* NULL passed as the ctrlByte argument.
NULL == -1

Endpoints == {"host", "guest"}

Peer(e) == IF e = "host" THEN "guest" ELSE "host"

Bytes == 0..MaxByte

(* ------------------------------ state --------------------------------- *)

VARIABLES
    store,          \* the floppy file: offset -> byte
    binary,         \* FPIO_BINARY (the same on both endpoints)
    synchronized,   \* endpoint -> FPIO_SYNCHRONIZED
    syncTimeout,    \* endpoint -> seconds, 0 = wait forever
    error,          \* endpoint -> this->error
    errorStr,       \* endpoint -> this->errorStr: the chained messages, last first
    pc,             \* endpoint -> position in the running call
    loc,            \* endpoint -> locals of the running call
    ret,            \* endpoint -> value returned by the last call
    rdata,          \* endpoint -> bytes the last receive handed to its caller
    now,            \* time(NULL), in seconds
    pending,        \* sender -> payloads passed to send and not yet returned by a receive
    expect,         \* receiver -> the payload its last receive was due to return
    clearedBy,      \* sender -> what last wrote its outbound control byte
    sender,         \* the endpoint whose outbound direction the run drives
    source,         \* the istream of send(istream*) and the locals of that call
    sink            \* the ostream of receive(ostream*) and the locals of that call

vars == <<store, binary, synchronized, syncTimeout, error, errorStr, pc, loc, ret, rdata,
          now, pending, expect, clearedBy, sender, source, sink>>

(* --------------------------- BufferLayout ------------------------------ *)

szFloppy == SzFloppy

\* szFloppy/2-1: the size of both buffers before the binary adjustment.
szHalf == (szFloppy \div 2) - 1

\* Buffers that give up only two bytes to the length prefix.
szOutputOfLess(b) == IF b THEN szHalf - 2 ELSE szHalf

szOutputOf(b) == IF b THEN szHalf - 3 ELSE szHalf
szOutput == szOutputOf(binary)
szInput == szOutput

ofsOutput(e) == IF e = "guest" THEN szHalf ELSE 0
\* An input offset that ignores FPIO_CLIENT.
ofsInputOfHost(e) == szHalf

ofsInput(e) == IF e = "guest" THEN 0 ELSE szHalf
ofsCtrlByteIn(e) == IF e = "guest" THEN szHalf + szHalf ELSE szHalf + szHalf + 1
ofsCtrlByteOut(e) == IF e = "guest" THEN szHalf + szHalf + 1 ELSE szHalf + szHalf

(* ---------------------------- ControlByte ------------------------------ *)

Pow2(k) == 2 ^ k

Bit(byte, k) == (byte \div Pow2(k)) % 2

SetBit(byte, k) == IF Bit(byte, k) = 1 THEN byte ELSE byte + Pow2(k)

ClearBit(byte, k) == IF Bit(byte, k) = 1 THEN byte - Pow2(k) ELSE byte

bDataPresent(byte) == Bit(byte, 0)
bEndOfData(byte) == Bit(byte, 1)
bLengthPrefix(byte) == Bit(byte, 2)
bAborted(byte) == Bit(byte, 3)

(* ------------------------- data-length prefix -------------------------- *)

\* Byte i (from 1, least significant first) of a non-negative int.
ByteOf(n, i) == (n \div (256 ^ (i - 1))) % 256

\* fpio_datalen_io: the four bytes of a 32-bit two's complement int, least
\* significant first (a negative n is the complement of -(n+1)).
LenBytes(n) ==
    [i \in 1..PrefixLen |-> IF n >= 0 THEN ByteOf(n, i) ELSE 255 - ByteOf(-(n + 1), i)]

\* The int whose four bytes are bs.
LenValue(bs) ==
    IF bs[4] < 128
    THEN bs[1] + 256 * bs[2] + 65536 * bs[3] + 16777216 * bs[4]
    ELSE -((255 - bs[1]) + 256 * (255 - bs[2]) + 65536 * (255 - bs[3])
            + 16777216 * (255 - bs[4])) - 1

(* ------------------------------ the file ------------------------------- *)

Offsets == 0..szFloppy

\* fIO->seekp(ofs); fIO->write(bs, Len(bs))
WriteAt(st, ofs, bs) ==
    [o \in Offsets |-> IF o >= ofs /\ o < ofs + Len(bs) THEN bs[o - ofs + 1] ELSE st[o]]

\* fIO->seekg(ofs); fIO->read(buf, n)
ReadAt(st, ofs, n) == [i \in 1..n |-> st[ofs + i - 1]]

Take(s, n) == [i \in 1..n |-> s[i]]

Min(a, b) == IF a < b THEN a ELSE b

\* strlen(buf): the index of the first zero byte.  A buffer without one is
\* read past its end (undefined): the scan stops at the end or one byte later.
Strlen(buf) ==
    IF \E i \in 1..Len(buf) : buf[i] = 0
    THEN {(CHOOSE i \in 1..Len(buf) : buf[i] = 0 /\ \A j \in 1..(i - 1) : buf[j] # 0) - 1}
    ELSE {Len(buf), Len(buf) + 1}

\* The first n bytes of a buffer; a byte past its end is whatever memory holds.
BufTake(buf, n, junk) == [i \in 1..n |-> IF i <= Len(buf) THEN buf[i] ELSE junk]

(* ------------------------------ locals --------------------------------- *)

NoFrame == <<NULL>>

loc0 ==
    [ op         |-> "none",   \* the running call: send, receive
      viaString  |-> FALSE,    \* entered through send(string, ...)
      data       |-> <<>>,     \* dataToSend / dataToReceive
      szData     |-> 0,
      bytesSent  |-> 0,
      cB         |-> 0,        \* fpio_ctlbyte_io cB
      flags      |-> 0,        \* *ctrlByte handed back by receive
      dataLength |-> 0,
      waitOfs    |-> 0,        \* waitForSync: controlByteOffset
      waitState  |-> 0,        \* waitForSync: state
      tStart     |-> 0,        \* time(NULL) when waitForSync was entered
      tExpired   |-> 0,
      polled     |-> FALSE,    \* waitForSync read the byte at least once
      latePolls  |-> 0,        \* reads of the byte begun after the deadline
      ticked     |-> FALSE ]   \* the clock advanced since the last step of the wait

\* What a finished call left with its caller.
\* sync: what waitForSync returned to the call, NoWait when it was not entered.
NoWait == 1
ret0 == [op |-> "none", str |-> FALSE, val |-> 0, nWritten |-> 0, flags |-> 0,
         sync |-> NoWait]

\* send(string, ...) ends without a return statement: its caller reads an
\* undefined value, which may or may not be what the inner send returned (v).
Returned(str, v) == IF str THEN {v, 0, FPIO_ERR_IO} ELSE {v}

(* ------------------------ error state of a channel --------------------- *)

\* A channel that takes itself for ready whatever its error code.
readyWhateverError(e) == TRUE

\* FloppyIO::ready(); the file stream itself stays good in the model.
ready(e) == error[e] = 0

\* A setError that records no code.
setErrorNoCode(e, code) == error

\* FloppyIO::setError(code, message): the new value of this->error.
setError(e, code) == [error EXCEPT ![e] = code]

\* A setError that keeps only the last message.
setErrorStrLast(e, message) == [errorStr EXCEPT ![e] = <<message>>]

\* FloppyIO::setError(code, message): the new value of this->errorStr, the
\* chained messages with the last one first ("message (errorStr)").
setErrorStr(e, message) ==
    [errorStr EXCEPT ![e] = IF @ = <<>> THEN <<message>> ELSE <<message>> \o @]

(* --------------------------- leaving a call ---------------------------- *)

\* Where a call of endpoint e returns to: the loop of send(istream*) or of
\* receive(ostream*) when that is what called it.
After(e) ==
    IF e = sender /\ source.run THEN "strm_sent"
    ELSE IF e = Peer(sender) /\ sink.run THEN "strr_rcvd"
    ELSE "idle"

\* return v; from send or receive of endpoint e, nw payload bytes written.
Return(e, v, nw, fl, sy) ==
    /\ ret' = [ret EXCEPT ![e] = [op |-> loc[e].op, str |-> loc[e].viaString, val |-> v,
                                  nWritten |-> nw, flags |-> fl, sync |-> sy]]
    /\ pc' = [pc EXCEPT ![e] = After(e)]
    /\ loc' = [loc EXCEPT ![e] = loc0]

(* ------------------------------- send ---------------------------------- *)

\* A send that trims to the whole buffer size, not one byte less.
WrapOverflowWholeBuffer(szData) == IF szData > szOutput THEN szOutput ELSE szData

\* The length send(char*, int, ...) writes: "Wrap overflow".
WrapOverflow(szData) == IF szData > szOutput - 1 THEN szOutput - 1 ELSE szData

\* The control byte send prepares from its ctrlByte argument.
PrepareCtl(ctrlByte) == IF ctrlByte = NULL THEN 1 ELSE SetBit(ctrlByte, 0)

\* send(string strData, ctrlByte) when str, send(char*, int, ctrlByte) otherwise:
\* the ready check and the preparation of the locals.
SendEnter(e, p, ctrlByte, str) ==
    /\ LET szIn == IF str THEN Min(Len(p), szOutput - 1) ELSE Len(p)
           me == [loc[e] EXCEPT !.op = "send", !.viaString = str]
       IN  IF ~ready(e)
           THEN /\ error' = setError(e, FPIO_ERR_NOTREADY)
                /\ errorStr' = setErrorStr(e, "Stream is not ready!")
                /\ \E v \in Returned(str, FPIO_ERR_NOTREADY) :
                       ret' = [ret EXCEPT ![e] = [ret0 EXCEPT !.op = "send", !.str = str,
                                                                 !.val = v]]
                /\ pc' = [pc EXCEPT ![e] = After(e)]
                /\ UNCHANGED <<loc, pending>>
           ELSE /\ loc' = [loc EXCEPT ![e] = [me EXCEPT
                              !.data = p,
                              !.bytesSent = szIn,
                              !.szData = WrapOverflow(szIn),
                              !.cB = PrepareCtl(ctrlByte)]]
                /\ pc' = [pc EXCEPT ![e] = IF binary THEN "send_prefix" ELSE "send_data"]
                /\ pending' = [pending EXCEPT ![e] = Append(@, p)]
                /\ ret' = [ret EXCEPT ![e] = ret0]
                /\ UNCHANGED <<error, errorStr>>
    /\ UNCHANGED <<store, binary, synchronized, syncTimeout, rdata, now, expect,
                   clearedBy, sender, source, sink>>

\* A call of send made while endpoint e runs nothing else.
SendCall(e, p, ctrlByte, str) == pc[e] = "idle" /\ SendEnter(e, p, ctrlByte, str)

\* Binary mode: the 4-byte length goes first and the control byte says so.
SendWritePrefix(e) ==
    /\ pc[e] = "send_prefix"
    /\ loc' = [loc EXCEPT ![e].cB = SetBit(@, 2)]
    /\ store' = WriteAt(store, ofsOutput(e), LenBytes(loc[e].szData))
    /\ pc' = [pc EXCEPT ![e] = "send_data"]
    /\ UNCHANGED <<binary, synchronized, syncTimeout, error, errorStr, ret, rdata, now, pending,
                   expect, clearedBy, sender, source, sink>>

\* A send that writes no payload byte.
DataToWriteNothing(e) == <<>>

\* The bytes send writes after the prefix: fIO->write(dataToSend, szData).
DataToWrite(e) == Take(loc[e].data, loc[e].szData)

\* A payload written from the offset of the inbound buffer.
DataOfsOutOfInput(e) == ofsInput(e) + (IF binary THEN PrefixLen ELSE 0)

\* Where the payload of a frame starts in the outbound buffer.
DataOfsOut(e) == ofsOutput(e) + (IF binary THEN PrefixLen ELSE 0)

SendWriteData(e) ==
    /\ pc[e] = "send_data"
    /\ store' = WriteAt(store, DataOfsOut(e), DataToWrite(e))
    /\ pc' = [pc EXCEPT ![e] = "send_ctl"]
    /\ UNCHANGED <<binary, synchronized, syncTimeout, error, errorStr, loc, ret, rdata, now,
                   pending, expect, clearedBy, sender, source, sink>>

\* The value a finished send returns.
SendResult(e) == loc[e].bytesSent

\* The control byte is written and flushed; an unsynchronized send returns.
SendWriteCtl(e) ==
    /\ pc[e] = "send_ctl"
    /\ store' = WriteAt(store, ofsCtrlByteOut(e), <<loc[e].cB>>)
    /\ clearedBy' = [clearedBy EXCEPT ![e] = "none"]
    /\ IF synchronized[e]
       THEN /\ loc' = [loc EXCEPT ![e].waitOfs = ofsCtrlByteOut(e), ![e].waitState = 0]
            /\ pc' = [pc EXCEPT ![e] = "wait_enter"]
            /\ UNCHANGED ret
       ELSE \E v \in Returned(loc[e].viaString, SendResult(e)) :
                Return(e, v, loc[e].szData, 0, NoWait)
    /\ UNCHANGED <<binary, synchronized, syncTimeout, error, errorStr, rdata, now, pending,
                   expect, sender, source, sink>>

(* ----------------------------- waitForSync ----------------------------- *)

\* A deadline that leaves the timeout out.
DeadlineNow(t, timeout) == t

\* time_t tExpired = time(NULL) + timeout;
Deadline(t, timeout) == t + timeout

WaitEnter(e) ==
    /\ pc[e] = "wait_enter"
    /\ loc' = [loc EXCEPT ![e].tStart = now,
                          ![e].tExpired = Deadline(now, syncTimeout[e]),
                          ![e].polled = FALSE,
                          ![e].latePolls = 0,
                          ![e].ticked = FALSE]
    /\ pc' = [pc EXCEPT ![e] = "wait_check"]
    /\ UNCHANGED <<store, binary, synchronized, syncTimeout, error, errorStr, ret, rdata, now,
                   pending, expect, clearedBy, sender, source, sink>>

\* while ((timeout == 0) || (time(NULL) <= tExpired))
KeepWaiting(timeout, t, tExpired) == timeout = 0 \/ t <= tExpired

\* The loop test; past the deadline the call ends with the time-out error.
WaitCheck(e) ==
    /\ pc[e] = "wait_check"
    /\ IF KeepWaiting(syncTimeout[e], now, loc[e].tExpired)
       THEN /\ pc' = [pc EXCEPT ![e] = "wait_poll"]
            /\ loc' = [loc EXCEPT ![e].ticked = FALSE]
            /\ UNCHANGED <<error, errorStr, ret>>
       ELSE /\ error' = setError(e, FPIO_ERR_TIMEOUT)
            /\ errorStr' = setErrorStr(e, "Timed-out while waiting for sync!")
            /\ \E v \in Returned(loc[e].viaString, FPIO_ERR_TIMEOUT) :
                   Return(e, v, loc[e].szData, 0, FPIO_ERR_TIMEOUT)
    /\ UNCHANGED <<store, binary, synchronized, syncTimeout, rdata, now, pending,
                   expect, clearedBy, sender, source, sink>>

\* A wait that takes any value of the byte for the one it waits for.
SyncReachedAtOnce(cStatusByte, state) == Bit(cStatusByte, 0) \in {0, 1}

\* if (((int)cStatusByte & (int)mask) == (int)state) return 0;  mask = 0x01
SyncReached(cStatusByte, state) == Bit(cStatusByte, 0) = state

\* One read of the control byte: on a match send returns and receive goes on.
WaitPoll(e) ==
    /\ pc[e] = "wait_poll"
    /\ IF SyncReached(store[loc[e].waitOfs], loc[e].waitState)
       THEN IF loc[e].op = "send"
            THEN \E v \in Returned(loc[e].viaString, SendResult(e)) :
                     Return(e, v, loc[e].szData, 0, 0)
            ELSE /\ pc' = [pc EXCEPT ![e] = "recv_ctl"]
                 /\ loc' = [loc EXCEPT ![e].polled = TRUE, ![e].ticked = FALSE]
                 /\ UNCHANGED ret
       ELSE /\ pc' = [pc EXCEPT ![e] = "wait_sleep"]
            /\ loc' = [loc EXCEPT ![e].polled = TRUE,
                                  ![e].ticked = FALSE,
                                  ![e].latePolls =
                                      IF syncTimeout[e] # 0 /\ now > loc[e].tExpired
                                      THEN @ + 1 ELSE @]
            /\ UNCHANGED ret
    /\ UNCHANGED <<store, binary, synchronized, syncTimeout, error, errorStr, rdata, now,
                   pending, expect, clearedBy, sender, source, sink>>

\* usleep(FPIO_TUNE_SLEEP)
WaitSleep(e) ==
    /\ pc[e] = "wait_sleep"
    /\ pc' = [pc EXCEPT ![e] = "wait_check"]
    /\ UNCHANGED <<store, binary, synchronized, syncTimeout, error, errorStr, loc, ret, rdata,
                   now, pending, expect, clearedBy, sender, source, sink>>

(* ------------------------------ receive -------------------------------- *)

\* receive(string*, ctrlByte): the ready check; a synchronized receive first
\* waits for the data-present bit of its inbound control byte.
RecvEnter(e) ==
    /\ IF ~ready(e)
       THEN /\ error' = setError(e, FPIO_ERR_NOTREADY)
            /\ errorStr' = setErrorStr(e, "Stream is not ready!")
            /\ ret' = [ret EXCEPT ![e] = [ret0 EXCEPT !.op = "receive",
                                              !.val = FPIO_ERR_NOTREADY]]
            /\ pc' = [pc EXCEPT ![e] = After(e)]
            /\ UNCHANGED loc
       ELSE /\ ret' = [ret EXCEPT ![e] = ret0] /\ loc' = [loc EXCEPT ![e] = [loc0 EXCEPT
                          !.op = "receive",
                          !.szData = szInput,
                          !.dataLength = szInput,
                          !.waitOfs = ofsCtrlByteIn(e),
                          !.waitState = 1]]
            /\ pc' = [pc EXCEPT ![e] = IF synchronized[e] THEN "wait_enter" ELSE "recv_ctl"]
            /\ UNCHANGED <<error, errorStr>>
    /\ rdata' = [rdata EXCEPT ![e] = <<>>]
    /\ expect' = [expect EXCEPT ![e] = NoFrame]
    /\ UNCHANGED <<store, binary, synchronized, syncTimeout, now, pending,
                   clearedBy, sender, source, sink>>

\* A call of receive made while endpoint e runs nothing else.
RecvCall(e) == pc[e] = "idle" /\ RecvEnter(e)

\* A reply with every field cleared.
AckByteZero(cB) == 0

\* The byte receive writes back: cB.flags.bDataPresent = 0.
AckByte(cB) == ClearBit(cB, 0)

\* The control byte is read, handed to the caller and prepared for the reply.
RecvReadCtl(e) ==
    /\ pc[e] = "recv_ctl"
    /\ loc' = [loc EXCEPT ![e].flags = store[ofsCtrlByteIn(e)],
                          ![e].cB = AckByte(store[ofsCtrlByteIn(e)])]
    /\ pc' = [pc EXCEPT ![e] = "recv_data"]
    /\ UNCHANGED <<store, binary, synchronized, syncTimeout, error, errorStr, ret, rdata, now,
                   pending, expect, clearedBy, sender, source, sink>>

\* if (this->binary && (cB.flags.bLengthPrefix == 1))
UsesPrefix(cB) == binary /\ bLengthPrefix(cB) = 1

\* dataLength = dL.size; if (dataLength > szInput) dataLength = szInput;
ClampLength(size) == IF size > szInput THEN szInput ELSE size

\* The bytes fIO->read(dataToReceive, dataLength) puts into the buffer.
ReadFrame(e, cB) ==
    IF UsesPrefix(cB)
    THEN ReadAt(store, ofsInput(e) + PrefixLen,
                ClampLength(LenValue(ReadAt(store, ofsInput(e), PrefixLen))))
    ELSE ReadAt(store, ofsInput(e), loc[e].szData)

\* The offsets fIO->read(dataToReceive, dataLength) takes the payload from.
PayloadOffsets(e, cB) ==
    IF UsesPrefix(cB)
    THEN {ofsInput(e) + PrefixLen + i - 1 :
             i \in 1..ClampLength(LenValue(ReadAt(store, ofsInput(e), PrefixLen)))}
    ELSE {ofsInput(e) + i - 1 : i \in 1..loc[e].szData}

\* A Binary receive that takes the whole region when there is no prefix.
FrameLengthWholeRegion(e, cB, buf) ==
    IF UsesPrefix(cB)
    THEN {ClampLength(LenValue(ReadAt(store, ofsInput(e), PrefixLen)))}
    ELSE IF binary THEN {Len(buf)} ELSE Strlen(buf)

\* The lengths receive may report for what it read.
FrameLength(e, cB, buf) ==
    IF UsesPrefix(cB)
    THEN {ClampLength(LenValue(ReadAt(store, ofsInput(e), PrefixLen)))}
    ELSE Strlen(buf)

RecvReadData(e) ==
    /\ pc[e] = "recv_data"
    /\ LET buf == ReadFrame(e, loc[e].cB)
       IN  \E n \in FrameLength(e, loc[e].cB, buf) :
               loc' = [loc EXCEPT ![e].data = buf, ![e].dataLength = n]
    /\ pc' = [pc EXCEPT ![e] = "recv_ack"]
    /\ UNCHANGED <<store, binary, synchronized, syncTimeout, error, errorStr, ret, rdata, now,
                   pending, expect, clearedBy, sender, source, sink>>

\* ansBuffer->assign(dataToReceive, bLen)
Assigned(buf, bLen, junk) == BufTake(buf, bLen, junk)

\* fIO->read(dataToReceive, dataLength) with a negative count reads nothing
\* and may leave the stream failed: the reply is then written or not.
AckWritten(dataLength) == IF dataLength < 0 THEN BOOLEAN ELSE {TRUE}

\* The reply is written and flushed, and receive returns the data length.
RecvAck(e) ==
    /\ pc[e] = "recv_ack"
    /\ \E wrote \in AckWritten(loc[e].dataLength) :
           /\ store' = IF wrote THEN WriteAt(store, ofsCtrlByteIn(e), <<loc[e].cB>>) ELSE store
           /\ clearedBy' = IF wrote THEN [clearedBy EXCEPT ![Peer(e)] = "receive"]
                                    ELSE clearedBy
    /\ \E junk \in (IF loc[e].dataLength > Len(loc[e].data) THEN Bytes \ {0} ELSE {0}) :
           rdata' = [rdata EXCEPT ![e] = Assigned(loc[e].data, loc[e].dataLength, junk)]
    /\ expect' = [expect EXCEPT ![e] =
                     IF pending[Peer(e)] = <<>> THEN NoFrame ELSE Head(pending[Peer(e)])]
    /\ pending' = [pending EXCEPT ![Peer(e)] = IF @ = <<>> THEN @ ELSE Tail(@)]
    /\ Return(e, loc[e].dataLength, 0, loc[e].flags, IF synchronized[e] THEN 0 ELSE NoWait)
    /\ UNCHANGED <<binary, synchronized, syncTimeout, error, errorStr, now, sender, source, sink>>

(* ------------------------------ streams -------------------------------- *)

\* The istream handed to send(istream*): its bytes, its get position and its
\* state bits.  failAt is the position at which the device under the stream
\* fails to deliver, NULL when it never does; seekable tells whether the device
\* can tell a position (a file can, a pipe cannot).  Then the locals of the
\* call (run: the call is in progress) and what it returned (out, val);
\* frames lists the control byte and the length of every frame it wrote.
source0 ==
    [ content    |-> <<>>,
      pos        |-> 0,
      eofbit     |-> FALSE,
      failbit    |-> FALSE,
      badbit     |-> FALSE,
      seekable   |-> TRUE,
      failAt     |-> NULL,
      run        |-> FALSE,
      inBuffer   |-> <<>>,
      rd         |-> 0,
      cB         |-> 0,
      aborting   |-> FALSE,
      sentLength |-> 0,
      frames     |-> <<>>,
      out        |-> "none",
      val        |-> 0 ]

\* The ostream handed to receive(ostream*), the locals of the call and what it
\* returned.  Writing to the stream itself does not fail in the model.
sink0 ==
    [ data       |-> <<>>,
      failbit    |-> FALSE,
      run        |-> FALSE,
      cB         |-> 0,
      readLength |-> 0,
      out        |-> "none",
      val        |-> 0 ]

\* int sentLength / int readLength start without a value: what the sum is
\* counted from.
Indeterminate == {0, 1, -1}

\* std::ios::good(), fail(), eof()
good(s) == ~s.eofbit /\ ~s.failbit /\ ~s.badbit
fail(s) == s.failbit \/ s.badbit
eof(s) == s.eofbit

\* std::istream::tellg(): -1 when fail() holds or the device cannot seek.
tellg(s) == IF fail(s) \/ ~s.seekable THEN -1 ELSE s.pos

\* std::istream::read(inBuffer, n) followed by gcount(): the characters up to
\* the end of the content or the failure of the device.  The end sets eofbit
\* and failbit; the failure sets badbit when the stream buffer reports it and
\* is taken for the end when the buffer only delivers fewer characters.
read(s, n) ==
    LET avail == Len(s.content) - s.pos
        hits  == s.failAt # NULL /\ s.pos <= s.failAt /\ s.failAt < s.pos + n
        cnt   == IF ~good(s) THEN 0
                 ELSE IF hits THEN s.failAt - s.pos
                 ELSE Min(n, avail)
        got   == [s EXCEPT !.pos = s.pos + cnt,
                           !.rd = cnt,
                           !.inBuffer = [i \in 1..cnt |-> s.content[s.pos + i]]]
        ended == [got EXCEPT !.eofbit = TRUE, !.failbit = TRUE]
    IN  IF ~good(s) THEN {[got EXCEPT !.failbit = TRUE]}
        ELSE IF hits THEN {[got EXCEPT !.badbit = TRUE], ended}
        ELSE IF avail < n THEN {ended}
        ELSE {got}

\* A chunk that fills the whole outbound buffer.
StreamChunkWholeBuffer == szOutput

\* stream->read(inBuffer, this->szOutput-1)
StreamChunk == szOutput - 1

\* send(istream*): the check of the stream and the zeroed control flags.
SendStreamCall(e) ==
    /\ pc[e] = "idle"
    /\ ~source.run
    /\ source.out = "none"
    /\ IF ~good(source)
       THEN /\ error' = setError(e, FPIO_ERR_INPUT)
            /\ errorStr' = setErrorStr(e, "Unable to open input stream!")
            /\ source' = [source EXCEPT !.out = "error", !.val = FPIO_ERR_INPUT]
            /\ UNCHANGED pc
       ELSE /\ source' = [source EXCEPT !.run = TRUE, !.cB = 0, !.sentLength = 0]
            /\ pc' = [pc EXCEPT ![e] = "strm_loop"]
            /\ UNCHANGED <<error, errorStr>>
    /\ UNCHANGED <<store, binary, synchronized, syncTimeout, loc, ret, rdata, now,
                   pending, expect, clearedBy, sender, sink>>

\* One turn of while (stream->good()): a chunk is read and the status of the
\* stream decides the flags; a stream no longer good ends the call with the
\* sum of the sent lengths.
SendStreamLoop(e) ==
    /\ pc[e] = "strm_loop"
    /\ IF good(source)
       THEN /\ \E s \in read(source, StreamChunk) :
                   source' =
                       IF eof(s) \/ tellg(s) < 0
                       THEN [s EXCEPT !.cB = SetBit(s.cB, 1)]
                       ELSE IF fail(s)
                       THEN [s EXCEPT !.cB = SetBit(SetBit(s.cB, 3), 1),
                                      !.aborting = TRUE,
                                      !.inBuffer = <<>>]
                       ELSE s
            /\ pc' = [pc EXCEPT ![e] = "strm_send"]
       ELSE /\ \E j \in Indeterminate :
                   source' = [source EXCEPT !.run = FALSE, !.out = "length",
                                            !.val = j + source.sentLength]
            /\ pc' = [pc EXCEPT ![e] = "idle"]
    /\ UNCHANGED <<store, binary, synchronized, syncTimeout, error, errorStr, loc, ret, rdata,
                   now, pending, expect, clearedBy, sender, sink>>

\* res = this->send(inBuffer, rd, cB); after a failed read it is
\* res = this->send("", cB).
SendStreamSend(e) ==
    /\ pc[e] = "strm_send"
    /\ SendEnter(e, source.inBuffer, source.cB, source.aborting)

\* The frame a send of the running send(istream*) put into the file.
Emitted == [ctl |-> PrepareCtl(source.cB), len |-> Len(source.inBuffer)]

\* Back from send: an error ends the call, a length is added to the sum.
SendStreamSent(e) ==
    /\ pc[e] = "strm_sent"
    /\ LET res == ret[e].val
           fr  == IF res = FPIO_ERR_NOTREADY THEN source.frames
                  ELSE Append(source.frames, Emitted)
       IN  IF source.aborting
           THEN /\ error' = setError(e, FPIO_ERR_INPUT)
                /\ errorStr' = setErrorStr(e, "Unable to read from input stream")
                /\ source' = [source EXCEPT !.run = FALSE, !.frames = fr,
                                            !.out = "error", !.val = FPIO_ERR_INPUT]
                /\ pc' = [pc EXCEPT ![e] = "idle"]
           ELSE IF res < 0
           THEN /\ source' = [source EXCEPT !.run = FALSE, !.frames = fr,
                                            !.out = "error", !.val = res]
                /\ pc' = [pc EXCEPT ![e] = "idle"]
                /\ UNCHANGED <<error, errorStr>>
           ELSE /\ source' = [source EXCEPT !.frames = fr,
                                            !.sentLength = source.sentLength + res]
                /\ pc' = [pc EXCEPT ![e] = "strm_loop"]
                /\ UNCHANGED <<error, errorStr>>
    /\ UNCHANGED <<store, binary, synchronized, syncTimeout, loc, ret, rdata, now,
                   pending, expect, clearedBy, sender, sink>>

\* receive(ostream*): cB.bEndOfData = 0 before the loop.
RecvStreamCall(e) ==
    /\ pc[e] = "idle"
    /\ ~sink.run
    /\ sink.out = "none"
    /\ sink' = [sink EXCEPT !.run = TRUE, !.cB = 0, !.readLength = 0]
    /\ pc' = [pc EXCEPT ![e] = "strr_loop"]
    /\ UNCHANGED <<store, binary, synchronized, syncTimeout, error, errorStr, loc, ret, rdata,
                   now, pending, expect, clearedBy, sender, source>>

\* The end of receive(ostream*) once no further block is to be read.
RecvStreamEnd(e) ==
    IF bAborted(sink.cB) = 1
    THEN sink' = [sink EXCEPT !.run = FALSE, !.failbit = TRUE,
                              !.out = "error", !.val = FPIO_ERR_ABORTED]
    ELSE \E j \in Indeterminate :
             sink' = [sink EXCEPT !.run = FALSE, !.out = "length",
                                  !.val = j + sink.readLength]

\* while (cB.bEndOfData == 0) rd = this->receive(&data, &cB);
RecvStreamLoop(e) ==
    /\ pc[e] = "strr_loop"
    /\ IF bEndOfData(sink.cB) = 0
       THEN RecvEnter(e)
       ELSE /\ RecvStreamEnd(e)
            /\ pc' = [pc EXCEPT ![e] = "idle"]
            /\ UNCHANGED <<store, binary, synchronized, syncTimeout, error, errorStr, loc, ret,
                           rdata, now, pending, expect, clearedBy, sender, source>>

\* Back from receive: an error fails the sink and ends the call; a block is
\* written to the sink, and an unsynchronized call ends after its one block.
RecvStreamRcvd(e) ==
    /\ pc[e] = "strr_rcvd"
    /\ LET rd == ret[e].val
       IN  IF rd < 0
           THEN /\ sink' = [sink EXCEPT !.run = FALSE, !.failbit = TRUE,
                                        !.out = "error", !.val = rd]
                /\ pc' = [pc EXCEPT ![e] = "idle"]
           ELSE LET got == [sink EXCEPT !.data = sink.data \o rdata[e],
                                        !.readLength = sink.readLength + rd,
                                        !.cB = IF synchronized[e] THEN ret[e].flags
                                               ELSE sink.cB]
                IN  IF synchronized[e]
                    THEN /\ sink' = got
                         /\ pc' = [pc EXCEPT ![e] = "strr_loop"]
                    ELSE /\ \E j \in Indeterminate :
                                sink' = [got EXCEPT !.run = FALSE, !.out = "length",
                                                    !.val = j + got.readLength]
                         /\ pc' = [pc EXCEPT ![e] = "idle"]
    /\ UNCHANGED <<store, binary, synchronized, syncTimeout, error, errorStr, loc, ret, rdata,
                   now, pending, expect, clearedBy, sender, source>>

(* ------------------------------- inputs -------------------------------- *)

\* Payloads handed to send: every length up to one past the buffer size,
\* a first byte and a byte that fills the rest.
Payloads ==
    {[i \in 1..n |-> IF i = 1 THEN a ELSE b] : n \in 0..(szOutput + 1), a \in Bytes, b \in Bytes}

\* ctrlByte arguments: none, and the end-of-data flag.
CtlArgs == {NULL, 2}

NoZero(p) == \A i \in 1..Len(p) : p[i] # 0

(* --------------------------- initial states ---------------------------- *)

\* Both endpoints constructed on a file the constructor's reset() zeroed.
InitCommon ==
    /\ store = [o \in Offsets |-> 0]
    /\ binary \in BOOLEAN
    /\ error = [e \in Endpoints |-> 0]
    /\ errorStr = [e \in Endpoints |-> <<>>]
    /\ pc = [e \in Endpoints |-> "idle"]
    /\ loc = [e \in Endpoints |-> loc0]
    /\ ret = [e \in Endpoints |-> ret0]
    /\ rdata = [e \in Endpoints |-> <<>>]
    /\ now = 0
    /\ pending = [e \in Endpoints |-> <<>>]
    /\ expect = [e \in Endpoints |-> NoFrame]
    /\ clearedBy = [e \in Endpoints |-> "none"]
    /\ sender \in Endpoints

DEFAULT_FIO_SYNC_TIMEOUT == 5

(* -------- loopback pair, unsynchronized: send, then receive ------------ *)

\* No stream call is made.
NoStreams == source = source0 /\ sink = sink0

Init ==
    /\ InitCommon
    /\ NoStreams
    /\ synchronized = [e \in Endpoints |-> FALSE]
    /\ syncTimeout = [e \in Endpoints |-> DEFAULT_FIO_SYNC_TIMEOUT]

AllIdle == \A e \in Endpoints : pc[e] = "idle"

\* The sender's side of the loop of src/test/test.cpp: the next send starts
\* when the frame before it was received.
LoopSend ==
    /\ AllIdle
    /\ pending[sender] = <<>>
    /\ \E p \in Payloads, c \in CtlArgs, str \in BOOLEAN : SendCall(sender, p, c, str)
    /\ rdata = [e \in Endpoints |-> <<>>]
    /\ expect = [e \in Endpoints |-> NoFrame]
    /\ ret = [e \in Endpoints |-> ret0]

\* The caller is done with what the last receive gave it.
LoopForget ==
    /\ AllIdle
    /\ pending[sender] = <<>>
    /\ ret[Peer(sender)].op = "receive"
    /\ rdata' = [e \in Endpoints |-> <<>>]
    /\ expect' = [e \in Endpoints |-> NoFrame]
    /\ ret' = [e \in Endpoints |-> ret0]
    /\ UNCHANGED <<store, binary, synchronized, syncTimeout, error, errorStr, pc, loc, now,
                   pending, clearedBy, sender, source, sink>>

LoopRecv ==
    /\ AllIdle
    /\ pending[sender] # <<>>
    /\ RecvCall(Peer(sender))

SendSteps == \E e \in Endpoints : SendWritePrefix(e) \/ SendWriteData(e) \/ SendWriteCtl(e)

RecvSteps == \E e \in Endpoints : RecvReadCtl(e) \/ RecvReadData(e) \/ RecvAck(e)

Next == LoopSend \/ LoopRecv \/ LoopForget \/ SendSteps \/ RecvSteps

Spec == Init /\ [][Next]_vars

(* ------------------------------- reset --------------------------------- *)

\* A reset that zeroes the file whatever the error state.
resetRegardless(e) ==
    /\ store' = WriteAt(store, 0, [i \in 1..(szFloppy + 1) |-> 0])
    /\ pending' = [x \in Endpoints |-> <<>>]
    /\ clearedBy' = [x \in Endpoints |-> "reset"]
    /\ UNCHANGED <<error, errorStr>>

\* FloppyIO::reset(): szFloppy+1 zero bytes from offset 0.  Frames that were
\* in the file are gone.
reset(e) ==
    IF ~ready(e)
    THEN /\ error' = setError(e, FPIO_ERR_NOTREADY)
         /\ errorStr' = setErrorStr(e, "Stream is not ready!")
         /\ UNCHANGED <<store, pending, clearedBy>>
    ELSE /\ store' = WriteAt(store, 0, [i \in 1..(szFloppy + 1) |-> 0])
         /\ pending' = [x \in Endpoints |-> <<>>]
         /\ clearedBy' = [x \in Endpoints |-> "reset"]
         /\ UNCHANGED <<error, errorStr>>

\* A call of reset() between two calls of endpoint e.
Reset(e) ==
    /\ pc[e] = "idle"
    /\ reset(e)
    /\ ret' = [ret EXCEPT ![e] = [ret0 EXCEPT !.op = "reset"]]
    /\ UNCHANGED <<binary, synchronized, syncTimeout, pc, loc, rdata, now, expect, sender, source, sink>>

\* Endpoint e opens the file again without FPIO_NOINIT: a new object, whose
\* constructor ends with reset().
Open(e) ==
    /\ pc[e] = "idle"
    /\ ret[e].op # "open"
    /\ store' = WriteAt(store, 0, [i \in 1..(szFloppy + 1) |-> 0])
    /\ pending' = [x \in Endpoints |-> <<>>]
    /\ clearedBy' = [x \in Endpoints |-> "reset"]
    /\ error' = [error EXCEPT ![e] = 0]
    /\ errorStr' = [errorStr EXCEPT ![e] = <<>>]
    /\ ret' = [ret EXCEPT ![e] = [ret0 EXCEPT !.op = "open"]]
    /\ rdata' = [rdata EXCEPT ![e] = <<>>]
    /\ expect' = [expect EXCEPT ![e] = NoFrame]
    /\ UNCHANGED <<binary, synchronized, syncTimeout, pc, loc, now, sender, source, sink>>

(* ------ synchronized pair: one sender and one receiver, in parallel ---- *)

InitSync ==
    /\ InitCommon
    /\ NoStreams
    /\ synchronized = [e \in Endpoints |-> TRUE]
    /\ syncTimeout = [e \in Endpoints |-> 0]

SyncPayloads == {p \in Payloads : Len(p) <= MaxSyncLen}

SyncSend ==
    \E p \in SyncPayloads, c \in CtlArgs, str \in BOOLEAN : SendCall(sender, p, c, str)

SyncRecv == RecvCall(Peer(sender))

WaitSteps == \E e \in Endpoints : WaitEnter(e) \/ WaitCheck(e) \/ WaitPoll(e) \/ WaitSleep(e)

NextSync == SyncSend \/ SyncRecv \/ SendSteps \/ RecvSteps \/ WaitSteps

SpecSync == InitSync /\ [][NextSync]_vars

\* The same pair when the receiving side may also reset or reopen the file.
PeerReset == Reset(Peer(sender))

PeerOpen == Open(Peer(sender))

\* send(char*, int) without a ctrlByte argument.
PlainSend == \E p \in SyncPayloads : SendCall(sender, p, NULL, FALSE)

NextReset ==
    PlainSend \/ SyncRecv \/ SendSteps \/ RecvSteps \/ WaitSteps \/ PeerReset \/ PeerOpen

SpecReset == InitSync /\ [][NextReset]_vars

(* ------- one endpoint with a timeout, its counterpart doing nothing ----- *)

\* The positions of waitForSync.
WaitPcs == {"wait_enter", "wait_check", "wait_poll", "wait_sleep"}

\* The positions between two readings of the clock that no sleep separates.
Timed == {"wait_check", "wait_poll"}

\* One second passes.  A statement of waitForSync takes less than a second, so
\* the clock advances at most once between two of its steps; usleep may take
\* any time.
Tick ==
    /\ now < MaxClock
    /\ \A e \in Endpoints : pc[e] \in Timed => ~loc[e].ticked
    /\ now' = now + 1
    /\ loc' = [e \in Endpoints |->
                  IF pc[e] \in Timed THEN [loc[e] EXCEPT !.ticked = TRUE] ELSE loc[e]]
    /\ UNCHANGED <<store, binary, synchronized, syncTimeout, error, errorStr, pc, ret, rdata,
                   pending, expect, clearedBy, sender, source, sink>>

\* FloppyIO::clear()
clear(e) == [error EXCEPT ![e] = 0]

\* this->errorStr = "" of FloppyIO::clear()
clearStr(e) == [errorStr EXCEPT ![e] = <<>>]

\* A call of clear() after a failed call of endpoint e.
Clear(e) ==
    /\ pc[e] = "idle"
    /\ error[e] # 0
    /\ error' = clear(e)
    /\ errorStr' = clearStr(e)
    /\ ret' = [ret EXCEPT ![e] = ret0]
    /\ UNCHANGED <<store, binary, synchronized, syncTimeout, pc, loc, rdata, now,
                   pending, expect, clearedBy, sender, source, sink>>

InitWait ==
    /\ InitCommon
    /\ NoStreams
    /\ synchronized = [e \in Endpoints |-> TRUE]
    /\ \E t \in 1..MaxTimeout : syncTimeout = [e \in Endpoints |-> t]

\* The endpoint sends a frame nobody takes.
LoneSend == pending[sender] = <<>> /\ Len(errorStr[sender]) < MaxChain /\ PlainSend

\* The endpoint receives where nobody sends.
LoneRecv == Len(errorStr[sender]) < MaxChain /\ RecvCall(sender)

LoneClear == Clear(sender)

LoneReset == Len(errorStr[sender]) < MaxChain /\ Reset(sender)

NextWait == LoneSend \/ LoneRecv \/ LoneClear \/ LoneReset \/ SendSteps \/ WaitSteps \/ Tick

SpecWait == InitWait /\ [][NextWait]_vars

(* ---- fpio -s on one endpoint, fpio -r on the other: a stream transfer -- *)

\* The contents of a source: every length up to MaxSrcLen, without zero bytes
\* and with them.
Contents ==
    {[i \in 1..n |-> 1 + (i % MaxByte)] : n \in 0..MaxSrcLen}
        \cup {[i \in 1..n |-> i % (MaxByte + 1)] : n \in 0..MaxSrcLen}

\* The sources: a file or a pipe, which may fail at any of its bytes, and a
\* file that could not be opened.
Sources ==
    {[source0 EXCEPT !.content = c, !.seekable = sk, !.failAt = f] :
        c \in Contents, sk \in BOOLEAN, f \in {NULL} \cup (0..MaxSrcLen)}
    \cup {[source0 EXCEPT !.failbit = TRUE]}

InitStream ==
    /\ InitCommon
    /\ \E sy \in BOOLEAN : synchronized = [e \in Endpoints |-> sy]
    /\ syncTimeout = [e \in Endpoints |-> 0]
    /\ source \in {s \in Sources : s.failAt = NULL \/ s.failAt < Len(s.content)}
    /\ sink = sink0

SendStream ==
    \/ SendStreamCall(sender)
    \/ SendStreamLoop(sender)
    \/ SendStreamSend(sender)
    \/ SendStreamSent(sender)

RecvStream ==
    \/ RecvStreamCall(Peer(sender))
    \/ RecvStreamLoop(Peer(sender))
    \/ RecvStreamRcvd(Peer(sender))

NextStream == SendStream \/ RecvStream \/ SendSteps \/ RecvSteps \/ WaitSteps

SpecStream == InitStream /\ [][NextStream]_vars

(* ---- fpio -r against a counterpart that sets the flags of its frames --- *)

\* ctrlByte arguments of a counterpart that ends or aborts a message.
EndCtlArgs == {0, 2, 10}

\* send(char*, int, ctrlByte), one frame at a time, for a message of a few
\* bytes.
FlagSend ==
    /\ pending[sender] = <<>>
    /\ Len(sink.data) < MaxSyncLen
    /\ \E p \in SyncPayloads, c \in EndCtlArgs : SendCall(sender, p, c, FALSE)

NextFlags == FlagSend \/ RecvStream \/ SendSteps \/ RecvSteps \/ WaitSteps

SpecFlags == InitSync /\ [][NextFlags]_vars

(* ------- both endpoints send and receive whenever they like ------------ *)

InitDuplex ==
    /\ InitCommon
    /\ NoStreams
    /\ synchronized = [e \in Endpoints |-> FALSE]
    /\ syncTimeout = [e \in Endpoints |-> DEFAULT_FIO_SYNC_TIMEOUT]

\* A short payload and one that is longer than the buffer.
DuplexPayloads == {[i \in 1..n |-> 1 + (i % MaxByte)] : n \in {1, szOutput + 1}}

\* An endpoint sends once the frame it sent before was taken.
DuplexSend ==
    \E e \in Endpoints :
        /\ pending[e] = <<>>
        /\ \E p \in DuplexPayloads : SendCall(e, p, NULL, FALSE)

DuplexRecv == \E e \in Endpoints : RecvCall(e)

NextDuplex == DuplexSend \/ DuplexRecv \/ SendSteps \/ RecvSteps

SpecDuplex == InitDuplex /\ [][NextDuplex]_vars

(* --- the echo pair: src/test/test.cpp on one side, its client on the other --- *)

\* The endpoint goes on with its loop: its last call did not return an error.
GoesOn(e) == pc[e] = "idle" /\ ret[e].val >= 0

\* test.cpp: szBytes = fio.receive(&str), then szBytes = fio.send(str); the
\* loop is left when szBytes < 0.
EchoServer ==
    LET e == Peer(sender)
    IN  /\ GoesOn(e)
        /\ IF ret[e].op = "receive"
           THEN SendCall(e, rdata[e], NULL, TRUE)
           ELSE RecvCall(e)

\* The client of test.cpp: a send, then a receive for the echo.
EchoClient ==
    LET e == sender
    IN  /\ GoesOn(e)
        /\ IF ret[e].op = "send"
           THEN RecvCall(e)
           ELSE \E p \in DuplexPayloads : SendCall(e, p, NULL, FALSE)

\* Every step endpoint e can take in the echo pair.
EchoProc(e) ==
    \/ (e = sender /\ EchoClient)
    \/ (e = Peer(sender) /\ EchoServer)
    \/ SendWritePrefix(e) \/ SendWriteData(e) \/ SendWriteCtl(e)
    \/ RecvReadCtl(e) \/ RecvReadData(e) \/ RecvAck(e)
    \/ WaitEnter(e) \/ WaitCheck(e) \/ WaitPoll(e) \/ WaitSleep(e)

NextEcho == EchoClient \/ EchoServer \/ SendSteps \/ RecvSteps \/ WaitSteps

\* Both processes are scheduled again and again.
SpecEcho ==
    /\ InitSync
    /\ [][NextEcho]_vars
    /\ \A e \in Endpoints : WF_vars(EchoProc(e))

(* -------- a Binary receive on a file the endpoint did not write -------- *)

\* Lengths found in a 4-byte prefix: negative, zero, a frame that fits, the
\* buffer size, above it, and the largest int.
FoundLengths == {-2147483647 - 1, -1, 0, 1, szOutputOf(TRUE), szOutputOf(TRUE) + 1, 2147483647}

\* Control bytes found: with the length-prefix flag (data present, with end
\* of data, with the aborted flag) and without it (a zeroed byte, data
\* present).
FoundCtl == {5, 7, 13, 0, 1}

\* fpio opens the floppy with FPIO_NOINIT | FPIO_NOCREATE | FPIO_BINARY: the
\* file is taken as it stands, with a frame of any prefix in the inbound
\* region of the endpoint that receives.
InitFound ==
    /\ binary = TRUE
    /\ sender \in Endpoints
    /\ \E n \in FoundLengths, a \in Bytes \ {0}, c \in FoundCtl, out \in {0, 1} :
           store = WriteAt(WriteAt(WriteAt(WriteAt([o \in Offsets |-> 0],
                       ofsInput(Peer(sender)), LenBytes(n)),
                       ofsInput(Peer(sender)) + PrefixLen, [i \in 1..(szOutputOf(TRUE) - 1) |-> a]),
                       ofsCtrlByteIn(Peer(sender)), <<c>>),
                       ofsCtrlByteOut(Peer(sender)), <<out>>)
    /\ error = [e \in Endpoints |-> 0]
    /\ errorStr = [e \in Endpoints |-> <<>>]
    /\ pc = [e \in Endpoints |-> "idle"]
    /\ loc = [e \in Endpoints |-> loc0]
    /\ ret = [e \in Endpoints |-> ret0]
    /\ rdata = [e \in Endpoints |-> <<>>]
    /\ now = 0
    /\ pending = [e \in Endpoints |-> <<>>]
    /\ expect = [e \in Endpoints |-> NoFrame]
    /\ clearedBy = [e \in Endpoints |-> "none"]
    /\ NoStreams
    /\ synchronized = [e \in Endpoints |-> FALSE]
    /\ syncTimeout = [e \in Endpoints |-> DEFAULT_FIO_SYNC_TIMEOUT]

\* The receiving endpoint calls receive on what it finds.
FoundRecv == RecvCall(Peer(sender))

NextFound == FoundRecv \/ RecvSteps

SpecFound == InitFound /\ [][NextFound]_vars

(* ------ a synchronized pair with a timeout: the sender tries again ----- *)

\* Two payloads that fit in a frame: the empty one and the longest one.
RetryPayloads == {<<>>, [i \in 1..(szOutput - 1) |-> 1]}

\* Frames sent and neither received nor given up on: at most this many.
MaxRetry == 2

\* send(char*, int) by the sender; after a time-out it has called clear().
RetrySend ==
    /\ Len(pending[sender]) < MaxRetry
    /\ ready(sender)
    /\ \E p \in RetryPayloads : SendCall(sender, p, NULL, FALSE)

RetryClear == Clear(sender)

\* receive by the counterpart, which stops at its first error.
RetryRecv == ready(Peer(sender)) /\ RecvCall(Peer(sender))

NextRetry == RetrySend \/ RetryClear \/ RetryRecv \/ SendSteps \/ RecvSteps \/ WaitSteps \/ Tick

SpecRetry == InitWait /\ [][NextRetry]_vars

(* ------- both endpoints send first: nobody is there to receive --------- *)

\* Both endpoints have the same timeout, 0 (wait for ever) included.
InitCrossed ==
    /\ InitCommon
    /\ NoStreams
    /\ synchronized = [e \in Endpoints |-> TRUE]
    /\ \E t \in 0..MaxTimeout : syncTimeout = [e \in Endpoints |-> t]

\* The first call of endpoint e is a send.
CrossedSend(e) ==
    /\ ret[e].op = "none"
    /\ SendCall(e, [i \in 1..(szOutput - 1) |-> 1], NULL, FALSE)

\* Its receive comes when the send has returned.
CrossedRecv(e) == ret[e].op = "send" /\ RecvCall(e)

\* Every step endpoint e can take.
CrossedProc(e) ==
    \/ CrossedSend(e) \/ CrossedRecv(e)
    \/ SendWritePrefix(e) \/ SendWriteData(e) \/ SendWriteCtl(e)
    \/ WaitEnter(e) \/ WaitCheck(e) \/ WaitPoll(e) \/ WaitSleep(e)

CrossedCalls == \E e \in Endpoints : CrossedSend(e) \/ CrossedRecv(e)

NextCrossed == CrossedCalls \/ SendSteps \/ WaitSteps \/ Tick

\* Both processes run and the clock goes on.
SpecCrossed ==
    /\ InitCrossed
    /\ [][NextCrossed]_vars
    /\ \A e \in Endpoints : WF_vars(CrossedProc(e))
    /\ WF_vars(Tick)

(* ======================= single-frame claims ========================== *)

\* A receive of endpoint e has returned the frame made from payload expect[e].
Received(e) == pc[e] = "idle" /\ ret[e].op = "receive" /\ expect[e] # NoFrame

\* A send of endpoint e has returned and its frame is still to be received.
Sent(e) == pc[e] = "idle" /\ ret[e].op = "send" /\ pending[e] # <<>>

\* C1: round trip over any history.  Every receive that follows a send of a
\* payload shorter than outboundSize (Text: without a zero byte) returns
\* exactly that payload and its length, whatever was sent before.
C1_RoundTrip ==
    \A e \in Endpoints :
        (Received(e) /\ Len(expect[e]) < szOutput /\ (binary \/ NoZero(expect[e])))
            => (rdata[e] = expect[e] /\ ret[e].val = Len(expect[e]))

\* The payload bytes of the frame in e's outbound buffer, n bytes long.
FrameBytes(e, n) == ReadAt(store, DataOfsOut(e), n)

\* C4 as stated: a payload of outboundSize bytes or more is cut to
\* outboundSize - 1 bytes in Text mode and to outboundSize bytes in Binary
\* mode, the first bytes of the payload, and no error is raised.
C4_TruncationAsStated ==
    \A e \in Endpoints :
        (Sent(e) /\ Len(Head(pending[e])) >= szOutput)
            => LET n == IF binary THEN szOutput ELSE szOutput - 1
               IN  /\ ret[e].nWritten = n
                   /\ FrameBytes(e, n) = Take(Head(pending[e]), n)
                   /\ error[e] = 0

\* C4 amended: a payload of outboundSize bytes or more is cut to
\* outboundSize - 1 bytes in both framing modes (in Binary mode the prefix
\* carries that length), the first bytes of the payload, and no error is raised.
C4_Truncation ==
    \A e \in Endpoints :
        (Sent(e) /\ Len(Head(pending[e])) >= szOutput)
            => /\ ret[e].nWritten = szOutput - 1
               /\ FrameBytes(e, szOutput - 1) = Take(Head(pending[e]), szOutput - 1)
               /\ binary => LenValue(ReadAt(store, ofsOutput(e), PrefixLen)) = szOutput - 1
               /\ error[e] = 0

\* A Binary-mode send of a payload longer than the buffer has returned.
C4_Witness ==
    \E e \in Endpoints :
        /\ Sent(e) /\ binary /\ Len(Head(pending[e])) > szOutput
        /\ ret[e].nWritten = szOutput - 1
        /\ Head(pending[e])[1] # 0

\* C5: a successful single-frame send returns the number of payload bytes it
\* wrote to the file, which is the length the counterpart's receive reports.
C5_SendReturnsWritten ==
    \A e \in Endpoints :
        (pc[e] = "idle" /\ ret[e].op = "send" /\ ~ret[e].str /\ ret[e].val >= 0)
            => /\ ret[e].val = ret[e].nWritten
               /\ Received(Peer(e)) => ret[Peer(e)].val = ret[e].val

\* The bytes of p before its first zero byte.
UpToZero(p) == Take(p, CHOOSE n \in Strlen(Append(p, 0)) : TRUE)

\* C6: the framing mode governs the boundary.  In Binary mode a payload that
\* fits in one frame comes back whole, zero bytes included, with the length
\* of the prefix; in Text mode it comes back up to its first zero byte.
C6_FramingBoundary ==
    \A e \in Endpoints :
        (Received(e) /\ Len(expect[e]) < szOutput)
            => IF binary
               THEN /\ rdata[e] = expect[e]
                    /\ ret[e].val = LenValue(ReadAt(store, ofsInput(e), PrefixLen))
               ELSE rdata[e] = UpToZero(expect[e])

\* The Binary half of C6 alone.
BinaryRoundTrip ==
    \A e \in Endpoints :
        (Received(e) /\ Len(expect[e]) < szOutput /\ binary)
            => /\ rdata[e] = expect[e]
               /\ ret[e].val = LenValue(ReadAt(store, ofsInput(e), PrefixLen))

(* ======================= synchronized claims ========================== *)

Writing(e) == pc[e] \in {"send_prefix", "send_data", "send_ctl"}

\* A synchronized send of e returned after its wait succeeded.
SendConfirmed(e) == pc[e] = "idle" /\ ret[e].op = "send" /\ ret[e].sync = 0

\* The frames: while a sender writes a frame every earlier frame has been
\* acknowledged, a receive returns only a frame that was sent and not yet
\* returned, and a send that returned left no frame behind.
FramesInTurn ==
    \A e \in Endpoints :
        /\ Writing(e) => Len(pending[e]) = 1
        /\ (pc[e] = "idle" /\ ret[e].op = "receive" /\ ret[e].val >= 0) => expect[e] # NoFrame
        /\ SendConfirmed(e) => pending[e] = <<>>

\* C2: turn alternation in synchronized mode.  The sender writes no byte of
\* the next frame before the receiver acknowledged the frame before it, and
\* the payloads the receives return are the payloads passed to the sends, in
\* order (payloads that fit; Text: without a zero byte).
C2_TurnAlternation ==
    /\ FramesInTurn
    /\ \A e \in Endpoints :
          (Received(e) /\ Len(expect[e]) < szOutput /\ (binary \/ NoZero(expect[e])))
              => rdata[e] = expect[e]

\* C2 in Binary mode alone.
TurnAlternationBinary == binary => C2_TurnAlternation

SendStreamDone == source.out = "length"

\* receive(ostream*) has returned the sum of the received lengths.
RecvStreamDone == sink.out = "length"

\* The source delivers all of its content.
Delivers == source.failAt = NULL

\* The frames of the transfer whose control byte carries endOfData=1.
EndFrames == {i \in 1..Len(source.frames) : bEndOfData(source.frames[i].ctl) = 1}

\* The last frame carries endOfData=1 and no other frame does.
OneEndLast == EndFrames = {Len(source.frames)}

C8_StreamReassembly ==
    (/\ \A e \in Endpoints : synchronized[e]
     /\ Delivers
     /\ binary \/ NoZero(source.content)
     /\ RecvStreamDone)
        => sink.data = source.content

\* The part of C8 the code keeps: Binary mode and a source that can tell its
\* position.
BinaryStreamReassembly == (binary /\ source.seekable) => C8_StreamReassembly

\* The part of C8 the code keeps for any source: what the sink has is made of
\* whole chunks of the source, each at most once and in order, in Binary mode.
BinarySinkIsPrefix ==
    (binary /\ (\A e \in Endpoints : synchronized[e]))
        => /\ Len(sink.data) <= Len(source.content)
           /\ sink.data = Take(source.content, Len(sink.data))

\* C9: if the source of sendStream fails before exhaustion, the sender emits a
\* final frame with aborted=1, endOfData=1 and no payload and fails with
\* InputError; the synchronized receiveStream then marks its sink failed and
\* returns Aborted, the bytes of earlier frames staying delivered.
C9_AbortPropagation ==
    /\ (source.failAt # NULL /\ source.out # "none")
           => /\ source.out = "error" /\ source.val = FPIO_ERR_INPUT
              /\ source.frames # <<>>
              /\ LET last == source.frames[Len(source.frames)]
                 IN  bAborted(last.ctl) = 1 /\ bEndOfData(last.ctl) = 1 /\ last.len = 0
    /\ (source.failAt # NULL /\ sink.out # "none" /\ synchronized[Peer(sender)])
           => /\ sink.out = "error" /\ sink.val = FPIO_ERR_ABORTED /\ sink.failbit
              /\ sink.data = Take(source.content, source.failAt)

\* What the code does instead: the branch that flags the abort is never taken
\* and no frame carries aborted=1.
AbortNeverFlagged ==
    /\ ~source.aborting
    /\ \A i \in 1..Len(source.frames) : bAborted(source.frames[i].ctl) = 0
    /\ bAborted(sink.cB) = 0

(* ============================ wait claims ============================= *)

\* Endpoint e leaves waitForSync in this step.
WaitReturns(e) == pc[e] \in WaitPcs /\ pc'[e] \notin WaitPcs

Coded == {"send", "receive"}

C12_FailureRecorded ==
    /\ \A e \in Endpoints :
           (pc[e] = "idle" /\ ret[e].op \in Coded /\ ~ret[e].str /\ ret[e].val < 0)
               => error[e] = ret[e].val
    /\ source.out = "error" => error[sender] = source.val
    /\ sink.out = "error" => error[Peer(sender)] = sink.val /\ ~ready(Peer(sender))

\* What the code keeps of C12: every failure but Aborted is recorded.
FailureRecordedButAborted ==
    /\ \A e \in Endpoints :
           (pc[e] = "idle" /\ ret[e].op \in Coded /\ ~ret[e].str /\ ret[e].val < 0)
               => error[e] = ret[e].val
    /\ source.out = "error" => error[sender] = source.val
    /\ (sink.out = "error" /\ sink.val # FPIO_ERR_ABORTED)
           => error[Peer(sender)] = sink.val

(* =========================== layout claims ============================ *)

\* C13: for the same capacity and framing mode the Host layout and the Guest
\* layout mirror each other: the outbound offset, size and control byte of
\* one are the inbound offset, size and control byte of the other.
C13_Mirrored ==
    /\ ofsOutput("host") = ofsInput("guest")
    /\ ofsInput("host") = ofsOutput("guest")
    /\ szOutput = szInput
    /\ ofsCtrlByteOut("host") = ofsCtrlByteIn("guest")
    /\ ofsCtrlByteIn("host") = ofsCtrlByteOut("guest")

\* The host has received, in Binary mode, what the guest sent.
C13_Witness ==
    /\ binary /\ sender = "guest"
    /\ Received("host") /\ rdata["host"] # <<>> /\ rdata["host"] = expect["host"]

\* The bytes from offset ofs on, n of them.
Range(ofs, n) == ofs .. (ofs + n - 1)

\* In Binary mode a frame starts with the 4-byte length.
Prefix == IF binary THEN PrefixLen ELSE 0

\* The four parts of a layout are pairwise disjoint, a data region being n
\* bytes from its offset.
Disjoint(e, n) ==
    LET out == Range(ofsOutput(e), n)
        in  == Range(ofsInput(e), n)
        cOut == {ofsCtrlByteOut(e)}
        cIn  == {ofsCtrlByteIn(e)}
    IN  /\ out \cap in = {} /\ out \cap cOut = {} /\ out \cap cIn = {}
        /\ in \cap cOut = {} /\ in \cap cIn = {} /\ cOut \cap cIn = {}

\* The sizes of the layout.
LayoutSizes ==
    /\ szOutput = szInput
    /\ szOutput = (SzFloppy \div 2) - 1 - (IF binary THEN 3 ELSE 0)

\* C14 as stated: the sizes are floor(capacity/2) - 1 (minus 3 in Binary mode)
\* and the regions and control bytes are pairwise disjoint, a region being
\* its outboundSize bytes together with the 4-byte prefix in Binary mode.
C14_LayoutAsStated ==
    LayoutSizes /\ \A e \in Endpoints : Disjoint(e, Prefix + szOutput)

\* C14 amended: in Binary mode a region is the 4-byte prefix together with
\* the outboundSize - 1 payload bytes of a maximal frame.
C14_Layout ==
    LayoutSizes
        /\ \A e \in Endpoints :
               Disjoint(e, IF binary THEN Prefix + (szOutput - 1) ELSE szOutput)

\* A maximal Binary frame has been sent.
C14_Witness ==
    /\ binary
    /\ \E e \in Endpoints :
           /\ pc[e] = "idle" /\ ret[e].op = "send" /\ ret[e].nWritten = szOutput - 1
           /\ Len(Head(pending[e])) >= szOutput - 1

\* C15: every byte written or read by an operation of the channel
\* (initialization, reset, send, receive, wait) lies at an offset in
\* [0, capacity): the store never grows past capacity bytes.
C15_FixedSizeStore == \A o \in DOMAIN store : o < szFloppy

\* The part of C15 the code keeps: no byte at offset capacity or beyond ever
\* changes its value, and no control byte or data region reaches it.
BelowCapacity ==
    \A e \in Endpoints :
        /\ ofsCtrlByteOut(e) < szFloppy /\ ofsCtrlByteIn(e) < szFloppy
        /\ ofsOutput(e) + szHalf <= szFloppy /\ ofsInput(e) + szHalf <= szFloppy
        /\ \A o \in DOMAIN store : o >= szFloppy => store[o] = 0

(* ============================ frame claims ============================ *)

\* The offsets at which a step changes the store.
Changed == {o \in Offsets : store'[o] # store[o]}

\* The slot of a data region: the bytes from its offset to the next region.
Slot(ofs) == Range(ofs, szHalf)

\* What endpoint e may write when it sends.
SendArea(e) == Slot(ofsOutput(e)) \cup {ofsCtrlByteOut(e)}

\* C16: a send changes no byte of the inbound region and no control byte but
\* the one at controlOutOffset, a receive changes no byte but the one at
\* controlInOffset; a Host send and a Guest send never write the same byte.
C16_Independence ==
    /\ [](SendArea("host") \cap SendArea("guest") = {})
    /\ [][\A e \in Endpoints :
            (pc'[e] # pc[e] \/ loc'[e] # loc[e]) =>
                /\ loc[e].op = "send" =>
                       /\ Changed \subseteq SendArea(e)
                       /\ Changed \cap (Slot(ofsInput(e)) \cup {ofsCtrlByteIn(e)}) = {}
                /\ loc[e].op = "receive" => Changed \subseteq {ofsCtrlByteIn(e)}]_vars

\* Host and Guest are both in the middle of a send of a full frame.
C16_Witness ==
    \A e \in Endpoints :
        pc[e] = "send_ctl" /\ loc[e].szData = szOutput - 1 /\ store[DataOfsOut(e)] # 0

(* =========================== progress claims ========================== *)

\* C17: in the echo pair, both endpoints synchronized, syncTimeout = 0 and
\* both processes scheduled fairly, every send and every receive eventually
\* returns successfully and no call ever returns Timeout.
C17_EchoProgress ==
    \A e \in Endpoints :
        /\ [](ret[e].sync # FPIO_ERR_TIMEOUT)
        /\ (pc[e] # "idle") ~> (pc[e] = "idle" /\ ret[e].op \in Coded /\ ret[e].val >= 0)

\* An endpoint has left its loop: its last call handed back a negative value.
LeftLoop(e) == pc[e] = "idle" /\ ret[e].val < 0

\* What the code keeps of C17: no call times out, no error is set, and every
\* call returns as long as the counterpart has not left its loop.
EchoCallsReturn ==
    \A e \in Endpoints :
        /\ [](ret[e].sync # FPIO_ERR_TIMEOUT /\ error[e] = 0)
        /\ (pc[e] # "idle") ~> (pc[e] = "idle" \/ LeftLoop(Peer(e)))

(* ======================= frames in the store ========================== *)

\* C18: Text-mode terminator.  After every successful Text-mode send of a
\* payload of length n < outboundSize the byte at outboundOffset + n is zero,
\* whatever frames were sent earlier in that region.
C18_TextTerminator ==
    \A e \in Endpoints :
        (Sent(e) /\ ~binary /\ error[e] = 0 /\ Len(Head(pending[e])) < szOutput)
            => store[ofsOutput(e) + Len(Head(pending[e]))] = 0

\* A receive of endpoint e has returned a length.
ReceiveDone(e) == pc[e] = "idle" /\ ret[e].op = "receive" /\ ret[e].val >= 0

\* C19 as stated: after every successful receive the byte at controlInOffset
\* has dataPresent = 0 and every other field cleared, whatever flags the
\* received frame carried.
C19_AckAllCleared ==
    \A e \in Endpoints : ReceiveDone(e) => store[ofsCtrlByteIn(e)] = 0

\* C19: after every successful receive the byte at controlInOffset has
\* dataPresent = 0 and every other field (endOfData, lengthPrefixUsed,
\* aborted, sequenceId) as the received frame carried it.
C19_AckKeepsFlags ==
    \A e \in Endpoints :
        ReceiveDone(e) =>
            /\ bDataPresent(store[ofsCtrlByteIn(e)]) = 0
            /\ store[ofsCtrlByteIn(e)] = ClearBit(ret[e].flags, 0)

\* A Binary frame that carried endOfData was received: its flags are still
\* in the acknowledgement byte.
C19_Witness ==
    \E e \in Endpoints :
        /\ ReceiveDone(e) /\ Received(e)
        /\ bEndOfData(ret[e].flags) = 1 /\ bLengthPrefix(ret[e].flags) = 1
        /\ bEndOfData(store[ofsCtrlByteIn(e)]) = 1
        /\ bLengthPrefix(store[ofsCtrlByteIn(e)]) = 1

(* ========================== length prefix ============================= *)

\* A receive of endpoint e returned from a frame with a length prefix.
PrefixReceived(e) ==
    pc[e] = "idle" /\ ret[e].op = "receive" /\ error[e] = 0 /\ UsesPrefix(ret[e].flags)

\* Endpoint e is about to read the payload of a frame with a length prefix.
PrefixReading(e) == pc[e] = "recv_data" /\ UsesPrefix(loc[e].cB)

ControlBytes == {ofsCtrlByteIn(e) : e \in Endpoints} \cup {ofsCtrlByteOut(e) : e \in Endpoints}

\* C20: clamped binary length.  In Binary mode with lengthPrefixUsed = 1, for
\* every value of the 4-byte prefix found in the store, receive returns a
\* length in [0, inboundSize], reads no byte outside
\* [inboundOffset, inboundOffset + 4 + inboundSize) and never reads a control
\* byte as payload.
C20_ClampedLength ==
    \A e \in Endpoints :
        /\ PrefixReceived(e) => ret[e].val \in 0..szInput
        /\ PrefixReading(e) =>
               /\ PayloadOffsets(e, loc[e].cB) \subseteq Range(ofsInput(e), PrefixLen + szInput)
               /\ PayloadOffsets(e, loc[e].cB) \cap ControlBytes = {}

\* What the code keeps of C20: the length is never above inboundSize and no
\* byte is read outside [inboundOffset, inboundOffset + 4 + inboundSize).
ClampedFromAbove ==
    \A e \in Endpoints :
        /\ PrefixReceived(e) => ret[e].val <= szInput
        /\ PrefixReading(e) =>
               PayloadOffsets(e, loc[e].cB) \subseteq Range(ofsInput(e), PrefixLen + szInput)

\* The two ways C20 fails: a negative length is returned, and the Host reads
\* its own outbound control byte as the last payload byte.
LengthNotNegative == \A e \in Endpoints : PrefixReceived(e) => ret[e].val >= 0

ControlByteNotRead ==
    \A e \in Endpoints :
        PrefixReading(e) => PayloadOffsets(e, loc[e].cB) \cap ControlBytes = {}

\* A Binary receive of endpoint e returned from a frame without a prefix.
PlainReceived(e) == ReceiveDone(e) /\ binary /\ bLengthPrefix(ret[e].flags) = 0

\* The inboundSize bytes of e's inbound region.
InboundBytes(e) == ReadAt(store, ofsInput(e), szInput)

C22_StreamTotal ==
    SendStreamDone => (source.val = source.sentLength /\ source.val = source.pos)

\* What the code keeps of C22: the counts that were added are the bytes read
\* from the source; the value returned is that sum on top of whatever
\* sentLength held at first.
StreamTotalOnTopOfJunk ==
    SendStreamDone =>
        /\ source.sentLength = source.pos
        /\ \E j \in Indeterminate : source.val = j + source.pos

\* The step is a call of reset() by endpoint e.
ResetStep(e) == pc' = pc /\ now' = now /\ pc[e] = "idle" /\ ret'[e].op = "reset"

\* C23: reset() on a ready channel sets every byte of the store in
\* [0, capacity) to zero, data regions and control bytes alike; reset() on a
\* channel with a pending error changes no byte and reports NotReady.
C23_Reset ==
    [][\A e \in Endpoints :
          ResetStep(e) =>
              IF error[e] = 0
              THEN (\A o \in 0..(szFloppy - 1) : store'[o] = 0) /\ error'[e] = 0
              ELSE store' = store /\ error'[e] = FPIO_ERR_NOTREADY]_vars

\* reset() was refused on a channel whose send had timed out: the frame of
\* that send is still in the store.
C23_Witness ==
    \E e \in Endpoints :
        /\ pc[e] = "idle" /\ ret[e].op = "reset" /\ error[e] = FPIO_ERR_NOTREADY
        /\ bDataPresent(store[ofsCtrlByteOut(e)]) = 1

(* ============================ error message =========================== *)

\* The messages chained in s, as a set.
Messages(s) == {s[i] : i \in 1..Len(s)}

\* C24: when an error is set while another is pending and clear() was not
\* called in between, the stored message afterwards contains both the old
\* and the new message and the channel stays non-ready; clear() empties the
\* message and sets the code to 0.
C24_ErrorChaining ==
    [][\A e \in Endpoints :
          /\ (errorStr[e] # <<>> /\ errorStr'[e] # errorStr[e] /\ errorStr'[e] # <<>>) =>
                 /\ Len(errorStr'[e]) = Len(errorStr[e]) + 1
                 /\ Tail(errorStr'[e]) = errorStr[e]
                 /\ Messages(errorStr[e]) \subseteq Messages(errorStr'[e])
                 /\ error'[e] # 0 /\ ~ready(e)'
          /\ (error[e] # 0 /\ error'[e] = 0) => errorStr'[e] = <<>>
          /\ (errorStr[e] # <<>> /\ errorStr'[e] = <<>>) => error'[e] = 0]_vars

\* A send timed out and the next call was refused: both messages are kept.
C24_Witness ==
    \E e \in Endpoints :
        /\ error[e] = FPIO_ERR_NOTREADY
        /\ errorStr[e] = <<"Stream is not ready!", "Timed-out while waiting for sync!">>

\* The message is empty exactly when the code is 0.
MessageIffError == \A e \in Endpoints : (error[e] = 0) <=> (errorStr[e] = <<>>)

(* ======================== time-outs and retries ======================= *)

\* The last send of endpoint e returned Timeout and e has made no call since.
TimedOutSend(e) == pc[e] = "idle" /\ ret[e].op = "send" /\ ret[e].sync = FPIO_ERR_TIMEOUT

\* The payload of the frame in e's outbound region is payload p, with its
\* length in the prefix in Binary mode.
FrameIs(e, p) ==
    /\ FrameBytes(e, Len(p)) = p
    /\ binary => ReadAt(store, ofsOutput(e), PrefixLen) = LenBytes(Len(p))

\* The frame of the send of e that returned last is still in the store.
FrameKept(e) == \E p \in RetryPayloads : Len(p) = ret[e].nWritten /\ FrameIs(e, p)

Written(p) == Take(p, WrapOverflow(Len(p)))

\* The frame now in e's outbound region, as a receive would read it in
\* Binary mode.
StoredFrame(e) ==
    FrameBytes(e, ClampLength(LenValue(ReadAt(store, ofsOutput(e), PrefixLen))))

\* C26: with both endpoints synchronized and a finite syncTimeout, in every
\* interleaving in which the sender, after a send returned Timeout, calls
\* clear() and sends again, the payload each receive returns is the payload
\* of exactly one send, never a mixture of two frames, and the
\* acknowledgement a receive writes never clears the dataPresent bit of a
\* frame whose payload that receive did not return.
C26_NoTornFrame ==
    \A e \in Endpoints :
        ReceiveDone(e) =>
            /\ \E p \in RetryPayloads : rdata[e] = Written(p)
            /\ (binary /\ clearedBy[Peer(e)] = "receive" /\ ~Writing(Peer(e)))
                   => rdata[e] = StoredFrame(Peer(e))

\* The two parts of C26 in Binary mode, where no earlier frame shows through
\* a later one.
BinaryPayloadOfOneSend ==
    \A e \in Endpoints :
        (binary /\ ReceiveDone(e)) => \E p \in RetryPayloads : rdata[e] = Written(p)

BinaryAckOfFrameReturned ==
    \A e \in Endpoints :
        (binary /\ ReceiveDone(e) /\ clearedBy[Peer(e)] = "receive" /\ ~Writing(Peer(e)))
            => rdata[e] = StoredFrame(Peer(e))

\* Endpoint e is in the loop of waitForSync with a deadline the clock of the
\* run reaches.
WaitsWithDeadline(e) ==
    /\ pc[e] \in {"wait_check", "wait_poll", "wait_sleep"}
    /\ syncTimeout[e] > 0
    /\ loc[e].tExpired < MaxClock

\* C27: crossed sends stall.  When both endpoints are synchronized and each
\* calls send before it calls receive, no send returns success; with
\* syncTimeout = 0 the call blocks for ever, with syncTimeout > 0 it returns
\* Timeout and the channel is left non-ready.
C27_CrossedSendsStall ==
    /\ [](\A e \in Endpoints :
             /\ ret[e].sync # 0
             /\ (pc[e] = "idle" /\ ret[e].op # "none") => (ret[e].val < 0 /\ ~ready(e)))
    /\ [][\A e \in Endpoints :
             (syncTimeout[e] = 0 /\ pc[e] # "idle") => pc'[e] # "idle"]_vars
    /\ \A e \in Endpoints : WaitsWithDeadline(e) ~> TimedOutSend(e)

\* Both sends have returned Timeout; both frames are in the store.
C27_Witness ==
    \A e \in Endpoints :
        /\ TimedOutSend(e) /\ error[e] = FPIO_ERR_TIMEOUT
        /\ bDataPresent(store[ofsCtrlByteOut(e)]) = 1

===========================================================================
